---------------------------- MODULE Spec2Model ----------------------------
(***************************************************************************)
(* Model of tomlTools/toml_redactor.py: the TOMLRedactor engine.           *)
(*                                                                         *)
(* A Python str is modelled as a sequence of one-character strings, so     *)
(* that strip(), lower(), substring containment and the regular            *)
(* expressions of the source are computed character by character.          *)
(*                                                                         *)
(* Four specifications share the variables:                                *)
(*   SpecKey   - one call of is_sensitive_key on a bounded key             *)
(*   SpecValue - one call of is_sensitive_value on a bounded value         *)
(*   SpecLine  - one call of redact_line on a fresh engine                 *)
(*   Spec      - redact_file over a document, then a second engine with    *)
(*               the same configuration over the text the first wrote      *)
(***************************************************************************)
EXTENDS Integers, Sequences, FiniteSets

VARIABLES
    redaction_text,      \* self.redaction_text
    check_values,        \* self.check_values
    preserve_commented,  \* self.preserve_commented
    remove_comments,     \* self.remove_comments
    redacted_count,      \* self.redacted_count
    redacted_lines,      \* self.redacted_lines
    pc,                  \* position of the caller
    arg,                 \* argument of the call: a key, a value or a line
    line_num,            \* redact_line's line_num / redact_file's loop index
    ret,                 \* value returned by the call
    lines,               \* redact_file: the list f.readlines() returned
    redacted_out,        \* redact_file: the local list of rewritten lines
    run,                 \* 1: first engine, 2: second engine on the first's output
    first                \* what the first engine read, wrote and reported

vars == <<redaction_text, check_values, preserve_commented, remove_comments,
          redacted_count, redacted_lines, pc, arg, line_num, ret, lines,
          redacted_out, run, first>>

engine == <<redaction_text, check_values, preserve_commented, remove_comments,
            redacted_count, redacted_lines>>

-----------------------------------------------------------------------------
(* Bounds of the model. *)

\* longest key of SpecKey, in atoms of KeyAtoms
MaxKeyParts == 3
\* longest value core of SpecValue, in atoms of ValueAtoms
MaxValueParts == 2
\* longest document of Spec, in lines
MaxLines == 2

-----------------------------------------------------------------------------
(* Characters and the str methods the source uses. *)

ToLower == [A |-> "a", B |-> "b", C |-> "c", D |-> "d", E |-> "e", F |-> "f",
            G |-> "g", H |-> "h", I |-> "i", J |-> "j", K |-> "k", L |-> "l",
            M |-> "m", N |-> "n", O |-> "o", P |-> "p", Q |-> "q", R |-> "r",
            S |-> "s", T |-> "t", U |-> "u", V |-> "v", W |-> "w", X |-> "x",
            Y |-> "y", Z |-> "z"]

UpperLetters == DOMAIN ToLower
LowerLetters == {ToLower[c] : c \in UpperLetters}
Letters == UpperLetters \cup LowerLetters
Digits == {"0", "1", "2", "3", "4", "5", "6", "7", "8", "9"}

\* \s of re and the characters str.strip() removes
Whitespace == {" ", "\t", "\n", "\r"}
\* the argument of strip('"\'') and the class ["\'] of re.sub
QuoteChars == {"\"", "'"}
\* \w of re
WordChars == Letters \cup Digits \cup {"_"}

\* a local variable: body(v) for the value v of e, with e evaluated once
Local(e, body(_)) == CHOOSE r \in {body(v) : v \in {e}} : TRUE

\* str.lower()
lower(s) == [i \in 1..Len(s) |-> IF s[i] \in UpperLetters THEN ToLower[s[i]] ELSE s[i]]

\* str.startswith(p)
startswith(s, p) == Len(p) <= Len(s) /\ SubSeq(s, 1, Len(p)) = p

\* str.endswith(p)
endswith(s, p) == Len(p) <= Len(s) /\ SubSeq(s, Len(s) - Len(p) + 1, Len(s)) = p

\* p occurs in s at index i
OccursAt(s, p, i) == i >= 1 /\ i + Len(p) - 1 <= Len(s) /\ SubSeq(s, i, i + Len(p) - 1) = p

\* p in s
contains(s, p) == \E i \in 1..(Len(s) - Len(p) + 1) : OccursAt(s, p, i)

\* length of the longest prefix of s[i..] made of characters of cls
RECURSIVE RunLen(_, _, _)
RunLen(s, i, cls) == IF i <= Len(s) /\ s[i] \in cls THEN 1 + RunLen(s, i + 1, cls) ELSE 0

\* length of the longest run of characters of cls that ends at s[i]
RECURSIVE RunLenBack(_, _, _)
RunLenBack(s, i, cls) == IF i >= 1 /\ s[i] \in cls THEN 1 + RunLenBack(s, i - 1, cls) ELSE 0

\* str.lstrip(chars)
lstrip(s, cls) == SubSeq(s, RunLen(s, 1, cls) + 1, Len(s))

\* str.rstrip(chars)
rstrip(s, cls) == SubSeq(s, 1, Len(s) - RunLenBack(s, Len(s), cls))

\* str.strip(chars)
strip(s, cls) == Local(lstrip(s, cls), LAMBDA t : rstrip(t, cls))

\* re.sub(r'["\']', '', s)
RemoveQuotes(s) == SelectSeq(s, LAMBDA c : c \notin QuoteChars)

\* the position i is where $ matches in s: the end, or just before a final newline
AtEnd(s, i) == i = Len(s) + 1 \/ (i = Len(s) /\ s[i] = "\n")

\* ''.join(parts)
RECURSIVE join(_)
join(parts) == IF parts = <<>> THEN <<>> ELSE Head(parts) \o join(Tail(parts))

-----------------------------------------------------------------------------
(* The rule tables of the class. *)

SENSITIVE_PATTERNS == {
    <<"p","a","s","s","w","o","r","d">>, <<"p","a","s","s","w","d">>, <<"p","w","d">>,
    <<"k","e","y">>, <<"a","p","i","k","e","y">>, <<"a","p","i","_","k","e","y">>, <<"s","e","c","r","e","t">>,
    <<"a","u","t","h","_","t","o","k","e","n">>, <<"a","c","c","e","s","s","_","t","o","k","e","n">>, <<"r","e","f","r","e","s","h","_","t","o","k","e","n">>, <<"b","e","a","r","e","r","_","t","o","k","e","n">>,
    <<"c","r","e","d","e","n","t","i","a","l">>, <<"c","r","e","d","e","n","t","i","a","l","s">>,
    <<"k","e","y","_","p","a","s","s","w","o","r","d">>,
    <<"m","o","e","s","i","f","k","e","y">>, <<"e","m","b","e","d","d","i","n","g","_","e","n","d","p","o","i","n","t","_","k","e","y">> }

\* r'\btoken\b', r'_token$', r'^token_'
TOKEN_PATTERNS == <<
    [re |-> "word",   text |-> <<"t","o","k","e","n">>],
    [re |-> "suffix", text |-> <<"_","t","o","k","e","n">>],
    [re |-> "prefix", text |-> <<"t","o","k","e","n","_">>] >>

\* r'^allow_' ... r'_interval$'
CONFIG_EXCLUDE_PATTERNS == <<
    [re |-> "prefix", text |-> <<"a","l","l","o","w","_">>],
    [re |-> "prefix", text |-> <<"e","n","a","b","l","e","_">>],
    [re |-> "prefix", text |-> <<"d","i","s","a","b","l","e","_">>],
    [re |-> "prefix", text |-> <<"s","h","o","w","_">>],
    [re |-> "prefix", text |-> <<"d","i","s","p","l","a","y","_">>],
    [re |-> "prefix", text |-> <<"r","e","t","a","i","n","_">>],
    [re |-> "suffix", text |-> <<"_","t","i","m","e">>],
    [re |-> "suffix", text |-> <<"_","p","e","r","i","o","d">>],
    [re |-> "suffix", text |-> <<"_","e","x","p","i","r","y">>],
    [re |-> "suffix", text |-> <<"_","t","i","m","e","o","u","t">>],
    [re |-> "suffix", text |-> <<"_","t","t","l">>],
    [re |-> "suffix", text |-> <<"_","v","a","l","i","d","i","t","y","_","p","e","r","i","o","d">>],
    [re |-> "suffix", text |-> <<"_","s","i","z","e">>],
    [re |-> "suffix", text |-> <<"_","c","o","u","n","t">>],
    [re |-> "suffix", text |-> <<"_","l","e","n","g","t","h">>],
    [re |-> "prefix", text |-> <<"m","a","x","_">>],
    [re |-> "prefix", text |-> <<"m","i","n","_">>],
    [re |-> "suffix", text |-> <<"_","t","h","r","e","a","d","s">>],
    [re |-> "suffix", text |-> <<"_","p","o","o","l","_","s","i","z","e">>],
    [re |-> "suffix", text |-> <<"_","i","n","t","e","r","v","a","l">>] >>

\* \b at position i of s (between s[i-1] and s[i])
WordBoundary(s, i) ==
    LET before == i > 1 /\ s[i - 1] \in WordChars
        after  == i <= Len(s) /\ s[i] \in WordChars
    IN  before # after

\* re.search(pattern, s) for the three shapes the key tables use:
\* ^text, text$ and \btext\b
re_search(p, s) ==
    CASE p.re = "prefix" -> startswith(s, p.text)
      [] p.re = "suffix" ->
            \E i \in 1..(Len(s) + 1) : OccursAt(s, p.text, i) /\ AtEnd(s, i + Len(p.text))
      [] p.re = "word" ->
            \E i \in 1..Len(s) :
                /\ OccursAt(s, p.text, i)
                /\ WordBoundary(s, i)
                /\ WordBoundary(s, i + Len(p.text))

-----------------------------------------------------------------------------
(* TOMLRedactor.is_sensitive_key *)

\* key_clean = re.sub(r'["\']', '', key).lower()
key_clean(key) == lower(RemoveQuotes(key))

\* a slip that asks the include tables before the exclude table
is_sensitive_key_include_first(key) ==
    Local(key_clean(key), LAMBDA k :
        IF \E p \in SENSITIVE_PATTERNS : contains(k, p) THEN TRUE
        ELSE IF \E i \in 1..Len(TOKEN_PATTERNS) : re_search(TOKEN_PATTERNS[i], k) THEN TRUE
        ELSE FALSE)

\* a slip that leaves out the token patterns
is_sensitive_key_no_token(key) ==
    Local(key_clean(key), LAMBDA k :
        IF \E i \in 1..Len(CONFIG_EXCLUDE_PATTERNS) : re_search(CONFIG_EXCLUDE_PATTERNS[i], k)
        THEN FALSE
        ELSE \E p \in SENSITIVE_PATTERNS : contains(k, p))

is_sensitive_key(key) ==
    Local(key_clean(key), LAMBDA k :
        IF \E i \in 1..Len(CONFIG_EXCLUDE_PATTERNS) : re_search(CONFIG_EXCLUDE_PATTERNS[i], k)
        THEN FALSE
        ELSE IF \E p \in SENSITIVE_PATTERNS : contains(k, p) THEN TRUE
        ELSE IF \E i \in 1..Len(TOKEN_PATTERNS) : re_search(TOKEN_PATTERNS[i], k) THEN TRUE
        ELSE FALSE)

-----------------------------------------------------------------------------
(* TOMLRedactor.is_sensitive_value *)

\* {40,} of the Base64 pattern
Base64MinLen == 40
\* ={0,2} of the Base64 pattern
Base64MaxPad == 2
\* {20,} of the OpenAI style pattern
SkMinLen == 20
\* {32,} of the generic long alphanumeric pattern
AlnumMinLen == 32

\* [A-Za-z0-9_-]
TokenClass == Letters \cup Digits \cup {"_", "-"}
\* [A-Za-z0-9+/]
Base64Class == Letters \cup Digits \cup {"+", "/"}
\* [A-Za-z0-9]
AlnumClass == Letters \cup Digits

\* JWT tokens, Base64 encoded credentials, OpenAI style keys, generic long alphanumeric
VALUE_PATTERNS == <<"jwt", "base64", "sk", "alnum">>

\* r'eyJ[A-Za-z0-9_-]*\.[A-Za-z0-9_-]*\.[A-Za-z0-9_-]*' matches s from index i
JwtAt(s, i) ==
    /\ OccursAt(s, <<"e","y","J">>, i)
    /\ LET dot1 == i + 3 + RunLen(s, i + 3, TokenClass)
       IN  /\ dot1 <= Len(s) /\ s[dot1] = "."
           /\ LET dot2 == dot1 + 1 + RunLen(s, dot1 + 1, TokenClass)
              IN  dot2 <= Len(s) /\ s[dot2] = "."

\* re.search(pattern, s) for the four value patterns
value_search(p, s) ==
    CASE p = "jwt" -> \E i \in 1..Len(s) : JwtAt(s, i)
      [] p = "base64" ->
            LET n == RunLen(s, 1, Base64Class)
            IN  /\ n >= Base64MinLen
                /\ \E pad \in 0..Base64MaxPad :
                      /\ pad <= RunLen(s, n + 1, {"="})
                      /\ AtEnd(s, n + pad + 1)
      [] p = "sk" ->
            /\ startswith(s, <<"s","k","-">>)
            /\ RunLen(s, 4, TokenClass) >= SkMinLen
      [] p = "alnum" ->
            LET n == RunLen(s, 1, AlnumClass)
            IN  n >= AlnumMinLen /\ AtEnd(s, n + 1)

\* length of the longest digits-with-single-underscores group of s from index i
RECURSIVE DigitPart(_, _)
DigitPart(s, i) ==
    IF i <= Len(s) /\ s[i] \in Digits
    THEN IF i + 2 <= Len(s) /\ s[i + 1] = "_" /\ s[i + 2] \in Digits
         THEN 2 + DigitPart(s, i + 2)
         ELSE 1 + DigitPart(s, i + 1)
    ELSE 0

\* float(s) does not raise ValueError
parses_as_float(s) ==
    Local(strip(s, Whitespace), LAMBDA t :
    LET i     == IF Len(t) >= 1 /\ t[1] \in {"+", "-"} THEN 2 ELSE 1
        word  == lower(SubSeq(t, i, Len(t)))
        int   == DigitPart(t, i)
        dot   == i + int
        isdot == dot <= Len(t) /\ t[dot] = "."
        frac  == IF isdot THEN DigitPart(t, dot + 1) ELSE 0
        e     == IF isdot THEN dot + 1 + frac ELSE dot
        isexp == e <= Len(t) /\ t[e] \in {"e", "E"}
        d     == IF e + 1 <= Len(t) /\ t[e + 1] \in {"+", "-"} THEN e + 2 ELSE e + 1
        exp   == IF isexp THEN DigitPart(t, d) ELSE 0
        stop  == IF isexp THEN d + exp ELSE e
    IN  \/ word \in {<<"i","n","f">>, <<"i","n","f","i","n","i","t","y">>, <<"n","a","n">>}
        \/ /\ int + frac > 0
           /\ isexp => exp > 0
           /\ stop = Len(t) + 1)

\* a slip that removes one quote character from each end only
clean_value_one_layer(value) ==
    Local(strip(value, Whitespace), LAMBDA t :
        LET a == IF Len(t) >= 1 /\ t[1] \in QuoteChars THEN 2 ELSE 1
            b == IF Len(t) >= a /\ t[Len(t)] \in QuoteChars THEN Len(t) - 1 ELSE Len(t)
        IN  SubSeq(t, a, b))

\* clean_value = value.strip().strip('"\'')
clean_value(value) == Local(strip(value, Whitespace), LAMBDA t : strip(t, QuoteChars))

\* a slip that asks the value patterns before the exemptions
is_sensitive_value_patterns_first(value) ==
    IF ~check_values THEN FALSE
    ELSE Local(clean_value(value), LAMBDA c :
             IF \E i \in 1..Len(VALUE_PATTERNS) : value_search(VALUE_PATTERNS[i], c) THEN TRUE
             ELSE FALSE)

is_sensitive_value(value) ==
    IF ~check_values THEN FALSE
    ELSE Local(clean_value(value), LAMBDA c :
             IF startswith(c, <<"$">>) \/ startswith(c, <<"$","{">>) THEN FALSE
             ELSE IF lower(c) \in {<<"t","r","u","e">>, <<"f","a","l","s","e">>} THEN FALSE
             ELSE IF parses_as_float(c) THEN FALSE
             ELSE IF \E i \in 1..Len(VALUE_PATTERNS) : value_search(VALUE_PATTERNS[i], c) THEN TRUE
             ELSE FALSE)

-----------------------------------------------------------------------------
(* TOMLRedactor.redact_line *)

\* [a-zA-Z_], the first character of a key
KeyStart == Letters \cup {"_"}
\* [a-zA-Z0-9_.-], the other characters of a bare key
KeyChars == Letters \cup Digits \cup {"_", ".", "-"}

\* index of the first double quote of s at or after i, 0 when there is none
RECURSIVE NextQuote(_, _)
NextQuote(s, i) ==
    IF i > Len(s) THEN 0 ELSE IF s[i] = "\"" THEN i ELSE NextQuote(s, i + 1)

\* (?:\."[^"]*")* from index i: the index after the last quoted segment
RECURSIVE QuotedSegments(_, _)
QuotedSegments(s, i) ==
    IF i + 1 <= Len(s) /\ s[i] = "." /\ s[i + 1] = "\""
    THEN Local(NextQuote(s, i + 2), LAMBDA close :
             IF close # 0 THEN QuotedSegments(s, close + 1) ELSE i)
    ELSE i

\* the index after the key that starts at k0: the bare part gives its last
\* dot back when a quoted segment follows it
KeyEnd(line, k0) ==
    Local(k0 + RunLen(line, k0, KeyChars), LAMBDA bare :
        IF bare - 1 > k0 /\ line[bare - 1] = "." /\ bare <= Len(line) /\ line[bare] = "\""
        THEN QuotedSegments(line, bare - 1)
        ELSE bare)

\* the indices at which (.+)$ can start after the = at index eq: \s* before it
\* is greedy but leaves .+ a character, and .+ holds no newline
ValueStarts(line, eq, vend) ==
    {v \in (eq + 1)..(eq + 1 + RunLen(line, eq + 1, Whitespace)) :
        /\ v <= vend
        /\ \A j \in v..vend : line[j] # "\n"}

NoMatch == [ok |-> FALSE, indent |-> <<>>, key |-> <<>>, value |-> <<>>]

\* re.match(r'^(\s*)([a-zA-Z_][a-zA-Z0-9_.-]*(?:\."[^"]*")*)\s*=\s*(.+)$', line):
\* the groups (indent, key, value) of the match the backtracking matcher finds,
\* or ok = FALSE
match_assignment(line) ==
    Local(RunLen(line, 1, Whitespace) + 1, LAMBDA k0 :
        IF ~(k0 <= Len(line) /\ line[k0] \in KeyStart) THEN NoMatch
        ELSE
    Local(KeyEnd(line, k0), LAMBDA kend :
    Local(kend + RunLen(line, kend, Whitespace), LAMBDA eq :
        IF ~(eq <= Len(line) /\ line[eq] = "=") THEN NoMatch
        ELSE
    \* .+$ ends at the end of the line or just before its final newline
    Local(IF line[Len(line)] = "\n" THEN Len(line) - 1 ELSE Len(line), LAMBDA vend :
    Local(ValueStarts(line, eq, vend), LAMBDA starts :
        IF starts = {} THEN NoMatch
        ELSE [ok     |-> TRUE,
              indent |-> SubSeq(line, 1, k0 - 1),
              key    |-> SubSeq(line, k0, kend - 1),
              value  |-> SubSeq(line, CHOOSE v \in starts : \A u \in starts : u <= v, vend)])))))

\* a slip that forgets the single-quote branch
redacted_value_double_only(value) == <<"\"">> \o redaction_text \o <<"\"">>

\* the replacement value, in the quote style of the original
redacted_value(value) ==
    Local(strip(value, Whitespace), LAMBDA value_stripped :
        IF startswith(value_stripped, <<"\"">>) /\ endswith(value_stripped, <<"\"">>)
        THEN <<"\"">> \o redaction_text \o <<"\"">>
        ELSE IF startswith(value_stripped, <<"'">>) /\ endswith(value_stripped, <<"'">>)
        THEN <<"'">> \o redaction_text \o <<"'">>
        ELSE <<"\"">> \o redaction_text \o <<"\"">>)

\* a slip that leaves the newline out of the f-string
redacted_line_no_newline(indent, key, value) ==
    indent \o key \o <<" ","="," ">> \o redacted_value(value)

\* f'{indent}{key} = {redacted_value}\n'
redacted_line(indent, key, value) ==
    indent \o key \o <<" ","="," ">> \o redacted_value(value) \o <<"\n">>

Kept(line) == [out |-> line, hit |-> FALSE]

\* a slip that re-emits every assignment in the normal form, sensitive or not
rewrite_normalizing(line) ==
    IF lstrip(line, Whitespace) = <<>> THEN Kept(line)
    ELSE IF startswith(lstrip(line, Whitespace), <<"#">>)
    THEN IF remove_comments THEN Kept(<<>>) ELSE Kept(line)
    ELSE Local(match_assignment(line), LAMBDA m :
             IF ~m.ok THEN Kept(line)
             ELSE IF is_sensitive_key(m.key) \/ is_sensitive_value(m.value)
             THEN [out |-> redacted_line(m.indent, m.key, m.value), hit |-> TRUE]
             ELSE Kept(m.indent \o m.key \o <<" ","="," ">> \o m.value \o <<"\n">>))

\* a slip that lets a comment through to the classifiers when
\* preserve_commented is off
rewrite_comments_inspected(line) ==
    IF lstrip(line, Whitespace) = <<>> THEN Kept(line)
    ELSE IF startswith(lstrip(line, Whitespace), <<"#">>) /\ (remove_comments \/ preserve_commented)
    THEN IF remove_comments THEN Kept(<<>>) ELSE Kept(line)
    ELSE Local(match_assignment(lstrip(lstrip(lstrip(line, Whitespace), {"#"}), Whitespace)),
               LAMBDA m :
             IF ~m.ok THEN Kept(line)
             ELSE IF is_sensitive_key(m.key) \/ is_sensitive_value(m.value)
             THEN [out |-> redacted_line(m.indent, m.key, m.value), hit |-> TRUE]
             ELSE Kept(line))

\* the line redact_line returns, and whether it took the redaction branch
rewrite(line) ==
    Local(lstrip(line, Whitespace), LAMBDA stripped :
        IF stripped = <<>> THEN Kept(line)
        ELSE IF startswith(stripped, <<"#">>)
        THEN IF remove_comments THEN Kept(<<>>)
             ELSE IF preserve_commented THEN Kept(line)
             ELSE Kept(line)
        ELSE Local(match_assignment(line), LAMBDA m :
                 IF ~m.ok THEN Kept(line)
                 ELSE IF is_sensitive_key(m.key) \/ is_sensitive_value(m.value)
                 THEN [out |-> redacted_line(m.indent, m.key, m.value), hit |-> TRUE]
                 ELSE Kept(line)))

\* a slip that counts the key verdict and the value verdict separately
redact_line_counting_verdicts(line, num) ==
    LET r == rewrite(line)
        m == match_assignment(line)
        k == IF r.hit /\ is_sensitive_key(m.key) THEN 1 ELSE 0
        v == IF r.hit /\ is_sensitive_value(m.value) THEN 1 ELSE 0
    IN  [out            |-> r.out,
         redacted_count |-> redacted_count + k + v,
         redacted_lines |-> IF r.hit THEN redacted_lines \cup {num} ELSE redacted_lines]

\* redact_line(line, line_num): the returned line and the engine's counters after it
redact_line(line, num) ==
    Local(rewrite(line), LAMBDA r :
        [out            |-> r.out,
         redacted_count |-> IF r.hit THEN redacted_count + 1 ELSE redacted_count,
         redacted_lines |-> IF r.hit THEN redacted_lines \cup {num} ELSE redacted_lines])

-----------------------------------------------------------------------------
(* TOMLRedactor.redact_file: reading and writing the text. *)

\* the text as open(path, 'r') presents it: \r\n and \r become \n
universal_newlines(text) ==
    LET crlf(i) == text[i] = "\r" /\ i + 1 <= Len(text) /\ text[i + 1] = "\n"
        marked  == [i \in 1..Len(text) |->
                       IF crlf(i) THEN "" ELSE IF text[i] = "\r" THEN "\n" ELSE text[i]]
    IN  SelectSeq(marked, LAMBDA c : c # "")

\* index of the first \n of s at or after i, 0 when there is none
NextNewline(s, i) ==
    Local({j \in i..Len(s) : s[j] = "\n"}, LAMBDA found :
        IF found = {} THEN 0 ELSE CHOOSE j \in found : \A k \in found : j <= k)

\* the text from index i, cut after each \n
RECURSIVE split_lines(_, _)
split_lines(text, i) ==
    IF i > Len(text) THEN <<>>
    ELSE Local(NextNewline(text, i), LAMBDA n :
             IF n = 0 THEN <<SubSeq(text, i, Len(text))>>
             ELSE <<SubSeq(text, i, n)>> \o split_lines(text, n + 1))

\* f.readlines()
readlines(text) == Local(universal_newlines(text), LAMBDA t : split_lines(t, 1))

-----------------------------------------------------------------------------
(* Inputs. *)

\* all concatenations of at most n atoms
RECURSIVE Concats(_, _)
Concats(atoms, n) ==
    IF n = 0 THEN {<<>>}
    ELSE LET shorter == Concats(atoms, n - 1)
         IN  shorter \cup {s \o a : s \in shorter, a \in atoms}

KeyAtoms == { <<"m","a","x","_">>, <<"_","c","o","u","n","t">>, <<"t","o","k","e","n">>, <<"_","t","o","k","e","n">>, <<"k","e","y">>, <<"K">>, <<"_">>, <<".">>, <<"-">>,
              <<"s">>, <<"x">>, <<"\"">>, <<"'">>, <<"\n">> }

Keys == Concats(KeyAtoms, MaxKeyParts)

\* a JWT-shaped triple, 20 alphanumerics, 20 Base64 characters, 20 digits
Jwt == <<"e","y","J","h","b","G","c","i",".","e","y","J","z","d","W","I","i",".","S","f","l","K","x","w","R","J">>
Alnum20 == <<"A","B","C","D","E","F","G","H","I","J","k","l","m","n","o","p","q","r","s","t">>
Base20 == <<"a","b","c","d","e","f","g","h","i","j","+","/","K","L","M","N","O","P","Q","R">>
Digits20 == <<"1","2","3","4","5","6","7","8","9","0","1","2","3","4","5","6","7","8","9","0">>

ValueAtoms == { <<"$">>, <<"{">>, Jwt, <<"s","k","-">>, Alnum20, Base20, Digits20, <<"T","r","u","e">>,
                <<"5">>, <<".">>, <<"e">>, <<"=">> }

\* what stands before and after the core of a value
Wraps == { <<<<>>, <<>>>>, <<<<"\"">>, <<"\"">>>>, <<<<"'">>, <<"'">>>>, <<<<" ","\"">>, <<"\""," ">>>>,
           <<<<"\""," ">>, <<" ","\"">>>>, <<<<"\"","\"">>, <<"\"","\"">>>>, <<<<"\"","'">>, <<"'","\"">>>>,
           <<<<"\"">>, <<"'">>>>, <<<<"'">>, <<>>>>, <<<<>>, <<"\"","\n">>>> }

Values == {w[1] \o core \o w[2] : w \in Wraps, core \in Concats(ValueAtoms, MaxValueParts)}

Indents == { <<>>, <<" "," ">> }

LineKeys == { <<"p","a","s","s","w","o","r","d">>, <<"m","a","x","_","t","o","k","e","n","_","c","o","u","n","t">>, <<"p","o","r","t">>, <<"p","r","o","p","e","r","t","i","e","s",".","\"","m","o","e","s","i","f","K","e","y","\"">>,
              <<"a",".","\"","b","\"",".","c">>, <<"T","o","k","e","n">>, <<"r","e","t","r","y",".">>, <<"d","b","-","u","r","l">> }

Separators == { <<"=">>, <<" ","="," ">>, <<"\t","="," "," ">> }

LineValues == { <<"\"","a","b","c","1","2","3","\"">>, <<"'","a","b","c","1","2","3","'">>, <<"a","b","c","1","2","3">>, <<"5">>, <<"t","r","u","e">>, <<>>, <<"\"">>,
                <<"\"","a","b","c","'">>, <<"\"","$","{","E","N","V","_","S","E","C","R","E","T","}","\"">>, <<"\"","a","b","c","\""," ","#"," ","n","o","t","e">>,
                <<"\"","s","k","-">> \o Alnum20 \o <<"\"">>, <<"'">> \o Alnum20 \o Alnum20 \o <<"'">>,
                Jwt }

Terminators == { <<>>, <<"\n">>, <<"\r","\n">> }

\* lines that are no assignment: blank, comment, table header, array element,
\* a key without a value, a key that does not start like one
OtherLines == { <<>>, <<"\n">>, <<" "," ","\n">>, <<"#"," ","p","a","s","s","w","o","r","d"," ","="," ","\"","h","u","n","t","e","r","2","\"","\n">>, <<" "," ","#","t","o","k","e","n"," ","="," ","a","b","c">>,
                <<"[","s","e","r","v","e","r","]","\n">>, <<" "," ","\"","a","\"",","," ","\"","b","\"",",","\n">>, <<"p","a","s","s","w","o","r","d","\n">>, <<"p","a","s","s","w","o","r","d"," ","=","\n">>,
                <<"\"","p","a","s","s","w","o","r","d","\""," ","="," ","\"","x","\"","\n">>, <<"9","k","e","y"," ","="," ","'","x","'","\n">> }

Lines == {i \o k \o s \o v \o t :
              i \in Indents, k \in LineKeys, s \in Separators, v \in LineValues,
              t \in Terminators} \cup OtherLines

\* the lines of the documents of Spec, as readlines() yields them
DocLines == { <<"a","p","i","_","k","e","y"," ","="," ","\"","s","k","-","A","B","C","D","E","F","G","H","I","J","K","L","M","N","O","P","Q","R","S","T","U","V","\"","\n">>, <<"m","a","x","_","r","e","t","r","y","_","c","o","u","n","t"," ","="," ","5","\n">>,
              <<"#"," ","p","a","s","s","w","o","r","d"," ","="," ","\"","h","u","n","t","e","r","2","\"","\n">>, <<"s","e","s","s","i","o","n","=","'">> \o Jwt \o <<"'","\n">>,
              <<"[","s","e","r","v","e","r","]","\n">>, <<"t","o","k","e","n"," ","="," ","a","b","c","1","2","3","\n">> }

\* all sequences of at most n elements of S
RECURSIVE SeqsUpTo(_, _)
SeqsUpTo(S, n) ==
    IF n = 0 THEN {<<>>}
    ELSE LET shorter == SeqsUpTo(S, n - 1)
         IN  shorter \cup {Append(d, x) : d \in shorter, x \in S}

\* the document without the newline that ends its last line
NoFinalNewline(d) ==
    [d EXCEPT ![Len(d)] = SubSeq(d[Len(d)], 1, Len(d[Len(d)]) - 1)]

Documents ==
    LET whole == SeqsUpTo(DocLines, MaxLines)
    IN  whole \cup {NoFinalNewline(d) : d \in whole \ {<<>>}}

\* the default of __init__, the example of the command line help, and a
\* placeholder that the value patterns take for a secret
DefaultText == <<"*","*","*","R","E","D","A","C","T","E","D","*","*","*">>
HiddenText == <<"[","H","I","D","D","E","N","]">>
OpaqueText == Alnum20 \o Alnum20

RedactionTexts == {DefaultText, HiddenText, OpaqueText}

-----------------------------------------------------------------------------
(* SpecKey: is_sensitive_key(arg) on an engine built with the defaults. *)

\* nothing has run yet
NoRun == [lines |-> <<>>, out |-> <<>>, redacted_count |-> 0, redacted_lines |-> {}]

Idle ==
    /\ redaction_text = DefaultText
    /\ check_values = TRUE
    /\ preserve_commented = TRUE
    /\ remove_comments = FALSE
    /\ redacted_count = 0
    /\ redacted_lines = {}
    /\ line_num = 0
    /\ lines = <<>>
    /\ redacted_out = <<>>
    /\ run = 1
    /\ first = NoRun

InitKey ==
    /\ Idle
    /\ arg \in Keys
    /\ ret = FALSE
    /\ pc = "call"

CallIsSensitiveKey ==
    /\ pc = "call"
    /\ ret' = is_sensitive_key(arg)
    /\ pc' = "done"
    /\ UNCHANGED <<engine, arg, line_num, lines, redacted_out, run, first>>

NextKey == CallIsSensitiveKey

SpecKey == InitKey /\ [][NextKey]_vars

-----------------------------------------------------------------------------
(* Claims about is_sensitive_key, checked under SpecKey. *)

\* the normalized key matches at least one exclude pattern
MatchesExclude(key) ==
    \E i \in 1..Len(CONFIG_EXCLUDE_PATTERNS) : re_search(CONFIG_EXCLUDE_PATTERNS[i], key_clean(key))

\* the normalized key contains a sensitive term
HasSensitiveTerm(key) == \E p \in SENSITIVE_PATTERNS : contains(key_clean(key), p)

\* the normalized key matches a token pattern
MatchesToken(key) ==
    \E i \in 1..Len(TOKEN_PATTERNS) : re_search(TOKEN_PATTERNS[i], key_clean(key))

\* C1: veto precedence. A key that matches an exclude pattern after its quotes
\* are removed and it is lower-cased is never classified sensitive, whatever
\* sensitive term or token pattern it also matches.
C1_VetoPrecedence ==
    (pc = "done" /\ MatchesExclude(arg)) => ret = FALSE

\* an excluded key that also holds a sensitive term and matches a token pattern
C1_Witness ==
    /\ pc = "done"
    /\ MatchesExclude(arg)
    /\ HasSensitiveTerm(arg)
    /\ MatchesToken(arg)
    /\ ret = FALSE

\* C7: a key that matches no exclude pattern is sensitive exactly when its
\* normalized form contains a sensitive term or matches a token pattern.
C7_TermOrToken ==
    (pc = "done" /\ ~MatchesExclude(arg)) =>
        ret = (HasSensitiveTerm(arg) \/ MatchesToken(arg))

\* a key that is sensitive through a token pattern alone
C7_Witness ==
    /\ pc = "done"
    /\ ~MatchesExclude(arg)
    /\ ~HasSensitiveTerm(arg)
    /\ MatchesToken(arg)
    /\ ret = TRUE

-----------------------------------------------------------------------------
(* SpecValue: is_sensitive_value(arg), value checks on or off. *)

InitValue ==
    /\ redaction_text = DefaultText
    /\ check_values \in BOOLEAN
    /\ preserve_commented = TRUE
    /\ remove_comments = FALSE
    /\ redacted_count = 0
    /\ redacted_lines = {}
    /\ line_num = 0
    /\ lines = <<>>
    /\ redacted_out = <<>>
    /\ run = 1
    /\ first = NoRun
    /\ arg \in Values
    /\ ret = FALSE
    /\ pc = "call"

CallIsSensitiveValue ==
    /\ pc = "call"
    /\ ret' = is_sensitive_value(arg)
    /\ pc' = "done"
    /\ UNCHANGED <<engine, arg, line_num, lines, redacted_out, run, first>>

NextValue == CallIsSensitiveValue

SpecValue == InitValue /\ [][NextValue]_vars

-----------------------------------------------------------------------------
(* Claims about is_sensitive_value, checked under SpecValue. *)

\* the trimmed value without the quote characters at its two ends: what lies
\* between its first and its last character that is no quote
Unquoted(value) ==
    LET t    == strip(value, Whitespace)
        body == {i \in 1..Len(t) : t[i] \notin QuoteChars}
    IN  IF body = {} THEN <<>>
        ELSE SubSeq(t, CHOOSE i \in body : \A j \in body : i <= j,
                       CHOOSE i \in body : \A j \in body : i >= j)

\* the trimmed value without one quote character at each end
OneLayerOff(value) ==
    LET t == strip(value, Whitespace)
        a == IF Len(t) >= 1 /\ t[1] \in QuoteChars THEN 2 ELSE 1
        b == IF Len(t) >= a /\ t[Len(t)] \in QuoteChars THEN Len(t) - 1 ELSE Len(t)
    IN  SubSeq(t, a, b)

\* a variable reference, a boolean literal or a number
Exempt(c) ==
    \/ (Len(c) >= 1 /\ c[1] = "$")
    \/ lower(c) \in {<<"t","r","u","e">>, <<"f","a","l","s","e">>}
    \/ parses_as_float(c)

MatchesValuePattern(c) == \E p \in {"jwt", "base64", "sk", "alnum"} : value_search(p, c)

\* the verdict on a normalized value: exemptions first, then the patterns
Verdict(c) == check_values /\ ~Exempt(c) /\ MatchesValuePattern(c)

\* C6: with value checks enabled, a value whose normalized text starts with $,
\* is true/false in any letter case or parses as a number is never sensitive,
\* whatever value pattern it matches.
C6_ExemptionsFirst ==
    (pc = "done" /\ check_values /\ Exempt(Unquoted(arg))) => ret = FALSE

\* a quoted number of 40 digits: exempt, though two value patterns match it
C6_Witness ==
    /\ pc = "done"
    /\ check_values
    /\ parses_as_float(Unquoted(arg))
    /\ MatchesValuePattern(Unquoted(arg))
    /\ Unquoted(arg) # strip(arg, Whitespace)
    /\ ret = FALSE

\* C10 as stated: the verdict is that of a classifier that removes one quote
\* character from each end of the trimmed value.
C10_OneLayer ==
    pc = "done" => ret = Verdict(OneLayerOff(arg))

\* C10 as amended: the verdict is that of a classifier that removes every
\* leading and trailing quote character of the trimmed value.
C10_AllLayers ==
    pc = "done" => ret = Verdict(Unquoted(arg))

\* a value in two quote layers, judged sensitive on the text inside both
C10_Witness ==
    /\ pc = "done"
    /\ Len(OneLayerOff(arg)) >= 2
    /\ OneLayerOff(arg)[1] \in QuoteChars
    /\ OneLayerOff(arg)[Len(OneLayerOff(arg))] \in QuoteChars
    /\ ret = TRUE
    /\ ~Verdict(OneLayerOff(arg))

-----------------------------------------------------------------------------
(* SpecLine: redact_line(arg, line_num) on a freshly constructed engine. *)

InitLine ==
    /\ redaction_text \in RedactionTexts
    /\ check_values \in BOOLEAN
    /\ preserve_commented \in BOOLEAN
    /\ remove_comments \in BOOLEAN
    /\ redacted_count = 0
    /\ redacted_lines = {}
    /\ line_num = 1
    /\ lines = <<>>
    /\ redacted_out = <<>>
    /\ run = 1
    /\ first = NoRun
    /\ arg \in Lines
    /\ ret = <<>>
    /\ pc = "call"

CallRedactLine ==
    /\ pc = "call"
    /\ \E r \in {redact_line(arg, line_num)} :
           /\ ret' = r.out
           /\ redacted_count' = r.redacted_count
           /\ redacted_lines' = r.redacted_lines
    /\ pc' = "done"
    /\ UNCHANGED <<redaction_text, check_values, preserve_commented, remove_comments,
                   arg, line_num, lines, redacted_out, run, first>>

NextLine == CallRedactLine

SpecLine == InitLine /\ [][NextLine]_vars

-----------------------------------------------------------------------------
(* Claims about redact_line, checked under SpecLine. *)

\* the line is empty after left-trim
IsBlank(line) == \A i \in 1..Len(line) : line[i] \in Whitespace

\* the first character of the line that is no whitespace is #
IsComment(line) ==
    \E i \in 1..Len(line) :
        /\ line[i] = "#"
        /\ \A j \in 1..(i - 1) : line[j] \in Whitespace

\* the line is neither blank nor a comment and matches the assignment grammar
IsAssignment(line) == ~IsBlank(line) /\ ~IsComment(line) /\ match_assignment(line).ok

\* an assignment whose key or value is classified sensitive
IsSensitiveAssignment(line) ==
    /\ IsAssignment(line)
    /\ \/ is_sensitive_key(match_assignment(line).key)
       \/ is_sensitive_value(match_assignment(line).value)

\* the line terminator of a line: CRLF, LF or none
Terminator(line) ==
    IF endswith(line, <<"\r","\n">>) THEN <<"\r","\n">>
    ELSE IF endswith(line, <<"\n">>) THEN <<"\n">>
    ELSE <<>>

\* the quote character the claim prescribes for the replacement of a value
QuoteFor(value) ==
    LET v == strip(value, Whitespace)
    IN  IF Len(v) >= 1 /\ v[1] = "'" /\ v[Len(v)] = "'" THEN "'" ELSE "\""

\* C3: quote-style preservation. A redacted assignment is emitted as the
\* captured indent, the captured key, " = " and the placeholder in single
\* quotes when the trimmed original value starts and ends with a single quote,
\* in double quotes in every other case (followed by the newline the rewriter
\* appends).
C3_QuoteStyle ==
    (pc = "done" /\ redacted_count = 1) =>
        LET m == match_assignment(arg)
            q == QuoteFor(m.value)
        IN  ret = m.indent \o m.key \o <<" ", "=", " ">> \o <<q>> \o redaction_text
                    \o <<q>> \o <<"\n">>

\* a single-quoted value redacted into single quotes
C3_Witness ==
    /\ pc = "done"
    /\ redacted_count = 1
    /\ QuoteFor(match_assignment(arg).value) = "'"
    /\ \E i \in 1..Len(ret) : ret[i] = "'"

C9_TerminatorKept ==
    (pc = "done" /\ redacted_count = 1) => Terminator(ret) = Terminator(arg)

-----------------------------------------------------------------------------
(* Spec: redact_file over a document, then a fresh engine with the same      *)
(* configuration over the file the first one wrote.                          *)

Init ==
    /\ redaction_text \in RedactionTexts
    /\ check_values \in BOOLEAN
    /\ preserve_commented \in BOOLEAN
    /\ remove_comments \in BOOLEAN
    /\ redacted_count = 0
    /\ redacted_lines = {}
    /\ lines \in Documents
    /\ redacted_out = <<>>
    /\ line_num = 1
    /\ arg = <<>>
    /\ ret = <<>>
    /\ run = 1
    /\ first = NoRun
    /\ pc = "loop"

\* one turn of: for line_num, line in enumerate(lines, start=1)
RedactNextLine ==
    /\ pc = "loop"
    /\ line_num <= Len(lines)
    /\ \E r \in {redact_line(lines[line_num], line_num)} :
           /\ redacted_out' = Append(redacted_out, r.out)
           /\ redacted_count' = r.redacted_count
           /\ redacted_lines' = r.redacted_lines
    /\ line_num' = line_num + 1
    /\ UNCHANGED <<redaction_text, check_values, preserve_commented, remove_comments,
                   pc, arg, ret, lines, run, first>>

\* output_content = ''.join(redacted_lines); f.write(output_content)
WriteOutput ==
    /\ pc = "loop"
    /\ line_num > Len(lines)
    /\ ret' = join(redacted_out)
    /\ pc' = "written"
    /\ UNCHANGED <<engine, arg, line_num, lines, redacted_out, run, first>>

\* TOMLRedactor(...) with the same arguments, redact_file on the written file
RunAgain ==
    /\ pc = "written"
    /\ run = 1
    /\ first' = [lines |-> lines, out |-> redacted_out,
                 redacted_count |-> redacted_count, redacted_lines |-> redacted_lines]
    /\ redacted_count' = 0
    /\ redacted_lines' = {}
    /\ lines' = readlines(ret)
    /\ redacted_out' = <<>>
    /\ line_num' = 1
    /\ ret' = <<>>
    /\ run' = 2
    /\ pc' = "loop"
    /\ UNCHANGED <<redaction_text, check_values, preserve_commented, remove_comments, arg>>

Next == RedactNextLine \/ WriteOutput \/ RunAgain

Spec == Init /\ [][Next]_vars

-----------------------------------------------------------------------------
(* Claims about the report state and about a second run, checked under Spec. *)

\* the lines processed so far that are assignments with a sensitive key or value
SensitivePositions == {n \in 1..Len(redacted_out) : IsSensitiveAssignment(lines[n])}

\* C8: the report state matches the redactions performed. The modified-line
\* set is the set of positions of the processed assignment lines whose key or
\* value is sensitive, the count is the size of that set, every recorded
\* number is a line number of the document, and the count never decreases
\* while an engine runs.
C8_ReportMatches ==
    /\ [](/\ redacted_lines = SensitivePositions
          /\ redacted_count = Cardinality(SensitivePositions)
          /\ redacted_lines \subseteq 1..Len(lines))
    /\ [][run' = run => redacted_count' >= redacted_count]_vars

\* a finished run over a document with a line whose key and value are both
\* sensitive, counted once
C8_Witness ==
    /\ pc = "written"
    /\ \E n \in 1..Len(lines) :
          /\ IsAssignment(lines[n])
          /\ is_sensitive_key(match_assignment(lines[n]).key)
          /\ is_sensitive_value(match_assignment(lines[n]).value)
    /\ redacted_count = Len(lines)
    /\ Len(lines) > 1

\* where line n of the first run's input stands in the file it wrote: dropped
\* comment lines take no place
PlaceOf(n) == Cardinality({k \in 1..n : first.out[k] # <<>>})

\* C2 as stated: the second run redacts none of the lines the first run redacted.
C2_NoSecondRedaction ==
    (pc = "written" /\ run = 2) =>
        \A n \in first.redacted_lines : PlaceOf(n) \notin redacted_lines

\* C2 as amended: the second run returns every line as it reads it, so the
\* text is a fixed point; a line the first run redacted is redacted and counted
\* again exactly when its key is sensitive or the quoted placeholder is itself
\* classified as a sensitive value.
C2_TextFixedPoint ==
    (pc = "written" /\ run = 2) =>
        /\ redacted_out = lines
        /\ \A n \in first.redacted_lines :
              LET m == match_assignment(first.lines[n])
              IN  /\ PlaceOf(n) <= Len(lines)
                  /\ lines[PlaceOf(n)] = first.out[n]
                  /\ PlaceOf(n) \in redacted_lines <=>
                        \/ is_sensitive_key(m.key)
                        \/ is_sensitive_value(redacted_value(m.value))

\* a second run over two lines the first run redacted: it counts one of them
\* again and leaves the other uncounted
C2_Witness ==
    /\ pc = "written"
    /\ run = 2
    /\ \E n \in first.redacted_lines : PlaceOf(n) \in redacted_lines
    /\ \E n \in first.redacted_lines : PlaceOf(n) \notin redacted_lines

=============================================================================
